---- MODULE Spec2Model ----
(***************************************************************************)
(* Restaurant POS: order submission (POS page), the create-payment edge    *)
(* function, the realtime order hook and the offline queue hook.           *)
(*                                                                         *)
(* Money: a JavaScript number x is represented by the integer x * 10000,   *)
(* so a price with two decimals times the rates 0.18 and 0.10 is exact.    *)
(* A decimal(10,2) column keeps a value rounded to a multiple of 100.      *)
(***************************************************************************)
EXTENDS Integers, Sequences, FiniteSets, TLC

NULL == "null"

(* ----------------------------- bounds ---------------------------------- *)
MaxQty == 2          \* largest quantity of one cart line
MaxClicks == 2       \* number of clicks on a payment button
MaxEdits == 3        \* cart, table and customer edits and connectivity changes
MaxDirect == 2       \* payment-initiation requests not sent by the POS page
MaxOffline == 2      \* calls of addOfflineOrder
MaxSyncs == 2        \* runs of syncPendingOrders that find a non-empty buffer
MaxRtOrders == 2     \* orders of the tenant that ever exist on the server
MaxEvents == 4       \* row changes made on the server
MaxStock == 2        \* largest current_stock and minimum_stock of an inventory item
MaxLife == 2         \* restaurantId changes, unmounts and channel drops of a hook
MaxLifeEvents == 2   \* events delivered to a hook whose restaurantId changes

(* --------------------------- fixed data -------------------------------- *)
Users == {"u1", "u2"}
UserRestaurant == [u \in Users |-> IF u = "u1" THEN "r1" ELSE "r2"]
\* restaurants.tax_rate and restaurants.service_charge, in percent, as set on
\* the settings form
RestaurantConfig ==
  [r \in {"r1", "r2"} |-> IF r = "r1" THEN [tax_rate |-> 18, service_charge |-> 10]
                                      ELSE [tax_rate |-> 5, service_charge |-> 0]]
NoHeader == "no_header"
Tokens == {"tok_u1", "tok_u2", "tok_bad", NoHeader}
MenuItems == {"m1", "m2"}
MenuPrice == [m \in MenuItems |-> IF m = "m1" THEN 9900 ELSE 250000]
TableIds == {"t1"}
Methods == {"cash", "razorpay", "card"}
FilledCustomer == [name |-> "Ann", phone |-> "98"]
EmptyCustomer == [name |-> "", phone |-> ""]

VARIABLES
  \* POS page state (useState)
  profile, cart, selectedTable, customerInfo, isProcessingPayment,
  \* the running processPayment call: position, closure and ghost result
  pc, sub, toast, totals, nClicks, lastClick, clock, issued, nEdits,
  \* database and payment processor
  orders, orderItems, payments, tables, gatewayOrders,
  \* last invocation of the edge function
  lastCall, nDirect,
  \* browser connectivity and useOfflineSync
  netOnline, isOnline, pendingOrders, localStorage, syncs, insertLog, nAdded,
  \* useRealtimeOrders
  serverOrders, feed, fetchState, localOrders, hist, readyToasts,
  \* life of the useRealtimeOrders instance: its restaurantId, whether the view
  \* is mounted, the channels subscribed in the client, fetches of earlier
  \* effect runs
  restaurantId, mounted, channels, staleFetches, nLife,
  \* inventory page state (useState)
  inventory, filteredInventory, searchQuery, selectedCategory, filterStatus

posVars == <<profile, cart, selectedTable, customerInfo, isProcessingPayment,
             pc, sub, toast, totals, nClicks, lastClick, clock, issued, nEdits>>
storeVars == <<orders, orderItems, payments, tables, gatewayOrders>>
edgeVars == <<lastCall, nDirect>>
offVars == <<netOnline, isOnline, pendingOrders, localStorage, syncs, insertLog, nAdded>>
lifeVars == <<restaurantId, mounted, channels, staleFetches, nLife>>
rtVars == <<serverOrders, feed, fetchState, localOrders, hist, readyToasts, lifeVars>>
invVars == <<inventory, filteredInventory, searchQuery, selectedCategory, filterStatus>>
vars == <<posVars, storeVars, edgeVars, offVars, rtVars, invVars>>

(* ------------------------- money helpers ------------------------------- *)
\* Postgres decimal(10,2): round half away from zero to two decimals
Decimal2(x) ==
  IF x >= 0 THEN ((x + 50) \div 100) * 100 ELSE 0 - (((0 - x) + 50) \div 100) * 100

\* Math.round(amount * 100): paise, half rounds up
ToPaise(x) == (x + 50) \div 100

(* --------------------------- Pricing ----------------------------------- *)
TaxRatePct == 18
ServiceChargeRatePct == 10

RECURSIVE Reduce(_, _)
\* cart.reduce((sum, item) => sum + item.price * item.quantity, 0)
Reduce(lines, sum) ==
  IF lines = <<>> THEN sum
  ELSE Reduce(Tail(lines), sum + Head(lines).price * Head(lines).quantity)

\* the tax is charged on subtotal plus service charge
calculateTotals_TaxOnService(c) ==
  LET subtotal == Reduce(c, 0)
      serviceCharge == (subtotal * ServiceChargeRatePct) \div 100
      taxAmount == ((subtotal + serviceCharge) * TaxRatePct) \div 100
  IN [subtotal |-> subtotal, taxAmount |-> taxAmount,
      serviceCharge |-> serviceCharge,
      total |-> subtotal + taxAmount + serviceCharge]

calculateTotals(c) ==
  LET subtotal == Reduce(c, 0)
      taxAmount == (subtotal * TaxRatePct) \div 100
      serviceCharge == (subtotal * ServiceChargeRatePct) \div 100
  IN [subtotal |-> subtotal, taxAmount |-> taxAmount,
      serviceCharge |-> serviceCharge,
      total |-> subtotal + taxAmount + serviceCharge]

(* ------------------------------ cart ----------------------------------- *)
HasLine(c, itemId) == \E i \in 1..Len(c) : c[i].id = itemId

\* cart.filter(cartItem => cartItem.id !== itemId)
RECURSIVE FilterOut(_, _)
FilterOut(c, itemId) ==
  IF c = <<>> THEN <<>>
  ELSE IF Head(c).id = itemId THEN FilterOut(Tail(c), itemId)
       ELSE <<Head(c)>> \o FilterOut(Tail(c), itemId)

\* cart.map(item => item.id === itemId ? { ...item, quantity } : item)
SetQuantity(c, itemId, quantity) ==
  [i \in 1..Len(c) |-> IF c[i].id = itemId
                        THEN [c[i] EXCEPT !.quantity = quantity] ELSE c[i]]

QuantityOf(c, itemId) ==
  LET i == CHOOSE j \in 1..Len(c) : c[j].id = itemId IN c[i].quantity

addToCart(item) ==
  /\ nEdits < MaxEdits
  /\ nEdits' = nEdits + 1
  /\ HasLine(cart, item) => QuantityOf(cart, item) < MaxQty
  /\ cart' = IF HasLine(cart, item)
             THEN SetQuantity(cart, item, QuantityOf(cart, item) + 1)
             ELSE Append(cart, [id |-> item, price |-> MenuPrice[item], quantity |-> 1])
  /\ toast' = item \o " added to order"
  /\ totals' = calculateTotals(cart')
  /\ UNCHANGED <<profile, selectedTable, customerInfo, isProcessingPayment,
                 pc, sub, nClicks, lastClick, clock, issued>>
  /\ UNCHANGED <<storeVars, edgeVars, offVars, rtVars, invVars>>

removeFromCartResult(c, itemId) == FilterOut(c, itemId)

\* only a negative quantity removes the line
RemovesLine_Negative(quantity) == quantity < 0

\* if (quantity <= 0) { removeFromCart(itemId); return }
RemovesLine(quantity) == quantity <= 0

\* the +/- buttons call updateQuantity(item.id, item.quantity -+ 1)
updateQuantity(itemId, quantity) ==
  /\ nEdits < MaxEdits
  /\ nEdits' = nEdits + 1
  /\ HasLine(cart, itemId)
  /\ quantity <= MaxQty
  /\ IF RemovesLine(quantity)
     THEN /\ cart' = removeFromCartResult(cart, itemId)
          /\ toast' = itemId \o " removed from order"
     ELSE /\ cart' = SetQuantity(cart, itemId, quantity)
          /\ toast' = toast
  /\ totals' = calculateTotals(cart')
  /\ UNCHANGED <<profile, selectedTable, customerInfo, isProcessingPayment,
                 pc, sub, nClicks, lastClick, clock, issued>>
  /\ UNCHANGED <<storeVars, edgeVars, offVars, rtVars, invVars>>

removeFromCart(itemId) ==
  /\ nEdits < MaxEdits
  /\ nEdits' = nEdits + 1
  /\ HasLine(cart, itemId)
  /\ cart' = removeFromCartResult(cart, itemId)
  /\ toast' = itemId \o " removed from order"
  /\ totals' = calculateTotals(cart')
  /\ UNCHANGED <<profile, selectedTable, customerInfo, isProcessingPayment,
                 pc, sub, nClicks, lastClick, clock, issued>>
  /\ UNCHANGED <<storeVars, edgeVars, offVars, rtVars, invVars>>

setSelectedTable(t) ==
  /\ nEdits < MaxEdits
  /\ nEdits' = nEdits + 1
  /\ selectedTable # t
  /\ selectedTable' = t
  /\ UNCHANGED <<profile, cart, customerInfo, isProcessingPayment,
                 pc, sub, toast, totals, nClicks, lastClick, clock, issued>>
  /\ UNCHANGED <<storeVars, edgeVars, offVars, rtVars, invVars>>

setCustomerInfo(info) ==
  /\ nEdits < MaxEdits
  /\ nEdits' = nEdits + 1
  /\ customerInfo # info
  /\ customerInfo' = info
  /\ UNCHANGED <<profile, cart, selectedTable, isProcessingPayment,
                 pc, sub, toast, totals, nClicks, lastClick, clock, issued>>
  /\ UNCHANGED <<storeVars, edgeVars, offVars, rtVars, invVars>>

(* ---------------------- create-payment edge function ------------------- *)
\* supabaseClient.auth.getUser(token)
GetUser(token) ==
  IF token = "tok_u1" THEN "u1" ELSE IF token = "tok_u2" THEN "u2" ELSE NULL

\* !order_id || !amount || amount <= 0
\* the check of negative amounts is missing
InvalidRequest_ZeroOnly(order_id, amount) == order_id = 0 \/ amount = 0

\* (a request without order_id carries the id 0, which no order has)
InvalidRequest(order_id, amount) == order_id = 0 \/ amount = 0 \/ amount <= 0

\* from('orders').select('*, user_profiles!inner(restaurant_id)').eq('id', order_id).single()
OrderFound(order_id) ==
  /\ order_id \in 1..Len(orders)
  /\ orders[order_id].created_by \in Users

\* order.user_profiles.restaurant_id
OrderProfileRestaurant(order_id) == UserRestaurant[orders[order_id].created_by]

\* the restaurants are not compared
AccessDenied_ProfileOnly(uid, order_id) == uid \notin Users

\* !userProfile || userProfile.restaurant_id !== order.user_profiles.restaurant_id
AccessDenied(uid, order_id) ==
  uid \notin Users \/ UserRestaurant[uid] # OrderProfileRestaurant(order_id)

\* every payment is recorded as completed
PaymentStatusFor_Completed(method) == "completed"

\* method === 'cash' ? 'completed' : 'pending'
PaymentStatusFor(method) == IF method = "cash" THEN "completed" ELSE "pending"

\* method === 'cash' ? new Date().toISOString() : null
ProcessedAtFor(method) == IF method = "cash" THEN "now" ELSE NULL

\* Deno.env.get('RAZORPAY_KEY_ID') and Deno.env.get('RAZORPAY_KEY_SECRET')
RazorpayKeyId == "rzp_key_id"
RazorpayKeySecret == "rzp_key_secret"

\* what the processor answers to the order request: it creates the order, or
\* rejects it with or without error.description
NoDescription == "no description"
GatewayAnswers == {"created", "Amount exceeds maximum amount allowed", NoDescription}

\* the processor's description is dropped
RazorpayErrorMessage_Swallowed(answer) == "Payment processing failed"

\* `Razorpay error: ${errorData.error?.description || 'Payment failed'}`
RazorpayErrorMessage(answer) ==
  "Razorpay error: " \o (IF answer = NoDescription THEN "Payment failed" ELSE answer)

\* the order the processor creates: amount in paise, receipt order_<id>, and
\* the Basic authorization the request carried
RazorpayOrder(order_id, amount) ==
  [amount |-> ToPaise(amount), receipt |-> order_id,
   authorization |-> <<RazorpayKeyId, RazorpayKeySecret>>]

\* the secret key is returned
PublicKeyFor_Secret(method) ==
  IF method = "razorpay" THEN RazorpayKeySecret ELSE NULL

\* method === 'razorpay' ? Deno.env.get('RAZORPAY_KEY_ID') : null
PublicKeyFor(method) == IF method = "razorpay" THEN RazorpayKeyId ELSE NULL

\* the row written by from('payments').insert(...)
PaymentRow(uid, order_id, amount, method, gatewayRef) ==
  [restaurant_id |-> UserRestaurant[uid], order_id |-> order_id,
   amount |-> Decimal2(amount), payment_method |-> method,
   payment_status |-> PaymentStatusFor(method),
   razorpay_order_id |-> gatewayRef, processed_by |-> uid,
   processed_at |-> ProcessedAtFor(method)]

\* from('orders').update({status: 'served', served_by, served_at}).eq('id', order_id)
ServeOrder(os, order_id, uid) ==
  [os EXCEPT ![order_id].status = "served", ![order_id].served_by = uid,
             ![order_id].served_at = "now"]

\* paymentResult.id || null: the number 0 stands for a null id
NullId == 0

\* the catch block: HTTP 400 with error.message.  gw is the processor's order
\* list after the call, answer and insert tell what the handler got from the
\* processor and from the payments insert ("not called" when it did not ask)
Failure(msg, gw, answer, insert) ==
  [success |-> FALSE, httpStatus |-> 400, error |-> msg, payment_id |-> NullId,
   razorpay_order_id |-> NullId, razorpay_key_id |-> NULL, status |-> NULL,
   orders |-> orders, payments |-> payments, gatewayOrders |-> gw,
   gateway |-> answer, insert |-> insert]

\* The whole handler.  gwAnswer: the processor's answer; insOk: the payments
\* insert succeeds; updOk: the orders update succeeds.  The result holds the
\* response and the contents of the stores after the call.
createPayment(token, order_id, amount, method, gwAnswer, insOk, updOk) ==
  LET uid == GetUser(token)
      none == "not called"
  IN
  IF token = NoHeader THEN Failure("TypeError", gatewayOrders, none, none)
  ELSE IF uid = NULL THEN Failure("Unauthorized", gatewayOrders, none, none)
  ELSE IF InvalidRequest(order_id, amount)
  THEN Failure("Invalid payment request", gatewayOrders, none, none)
  ELSE IF ~OrderFound(order_id)
  THEN Failure("Order not found", gatewayOrders, none, none)
  ELSE IF AccessDenied(uid, order_id)
  THEN Failure("Access denied", gatewayOrders, none, none)
  ELSE IF method = "razorpay" /\ gwAnswer # "created"
  THEN Failure(RazorpayErrorMessage(gwAnswer), gatewayOrders, gwAnswer, none)
  ELSE
    LET gw == IF method = "razorpay"
              THEN Append(gatewayOrders, RazorpayOrder(order_id, amount))
              ELSE gatewayOrders
        answer == IF method = "razorpay" THEN gwAnswer ELSE none
        ref == IF method = "razorpay" THEN Len(gw) ELSE NullId
    IN IF ~insOk
       THEN Failure("Failed to create payment record", gw, answer, "error")
       ELSE
         LET row == PaymentRow(uid, order_id, amount, method, ref) IN
         [success |-> TRUE, httpStatus |-> 200, error |-> NULL,
          payment_id |-> Len(payments) + 1,
          razorpay_order_id |-> ref,
          razorpay_key_id |-> PublicKeyFor(method),
          status |-> row.payment_status,
          orders |-> IF method = "cash" /\ updOk
                     THEN ServeOrder(orders, order_id, uid) ELSE orders,
          payments |-> Append(payments, row),
          gatewayOrders |-> gw,
          gateway |-> answer, insert |-> "ok"]

\* what the caller receives
ResponseOf(r) ==
  [success |-> r.success, httpStatus |-> r.httpStatus, error |-> r.error,
   payment_id |-> r.payment_id, razorpay_order_id |-> r.razorpay_order_id,
   razorpay_key_id |-> r.razorpay_key_id, status |-> r.status]

(* --------------------------- processPayment ---------------------------- *)
\* slice(-6) keeps the last six decimal digits of the timestamp
OrderNumberSpan == 1000000

\* milliseconds that pass between two readings of Date.now(); the clock is
\* counted from an instant whose last six digits are 000000
Elapsed == {1, OrderNumberSpan}

\* 'ORD' + Date.now().toString().slice(-6): the digits that follow the tag
generateOrderNumber(now) == now % OrderNumberSpan

\* UNIQUE(restaurant_id, order_number)
UniqueViolation(os, row) ==
  \E i \in 1..Len(os) : /\ os[i].restaurant_id = row.restaurant_id
                        /\ os[i].order_number = row.order_number

TokenOf(uid) == IF uid = "u1" THEN "tok_u1" ELSE "tok_u2"

\* tables of the restaurant shown in the table selector
TablesOf(uid) == IF uid = "u1" THEN TableIds ELSE {}

\* the row inserted into orders (decimal(10,2) columns)
OrderRow(s) ==
  [restaurant_id |-> UserRestaurant[s.profile], table_id |-> s.table,
   order_number |-> s.orderNumber,
   customer_name |-> IF s.customer.name = "" THEN NULL ELSE s.customer.name,
   status |-> "pending",
   subtotal |-> Decimal2(s.totals.subtotal),
   tax_amount |-> Decimal2(s.totals.taxAmount),
   service_charge |-> Decimal2(s.totals.serviceCharge),
   total_amount |-> Decimal2(s.totals.total),
   created_by |-> s.profile, served_by |-> NULL, served_at |-> NULL]

\* cart.map(item => ({order_id, menu_item_id, quantity, unit_price, total_price}))
OrderItemRows(c, order_id) ==
  {[order_id |-> order_id, menu_item_id |-> c[i].id, quantity |-> c[i].quantity,
    unit_price |-> Decimal2(c[i].price),
    total_price |-> Decimal2(c[i].price * c[i].quantity)] : i \in 1..Len(c)}

\* no processPayment call has been made yet
NoSub ==
  [method |-> NULL, profile |-> NULL, cart |-> <<>>, table |-> NULL,
   customer |-> EmptyCustomer, totals |-> calculateTotals(<<>>), orderId |-> 0,
   orderNumber |-> 0, failed |-> {}, resp |-> NULL, outcome |-> "none", offline |-> FALSE, insertIssued |-> FALSE]

\* the cart is not looked at
GuardReturns_ProfileOnly == profile = NULL

\* if (!profile?.restaurant_id || cart.length === 0) return
GuardReturns == profile = NULL \/ Len(cart) = 0

\* catch (error) { toast.error(error.message) } finally { setIsProcessingPayment(false) }
\* (sub.failed keeps the steps of the submission that failed)
Fail(msg, step) ==
  /\ toast' = msg
  /\ isProcessingPayment' = FALSE
  /\ pc' = "idle"
  /\ sub' = [sub EXCEPT !.outcome = "error", !.failed = @ \cup {step}]
  /\ UNCHANGED <<profile, cart, selectedTable, customerInfo, totals, nClicks,
                 lastClick, clock, issued, nEdits>>

\* the buttons stay enabled while a submission runs
processPayment_NoGuard(method) ==
  /\ nClicks < MaxClicks
  /\ nClicks' = nClicks + 1
  /\ UNCHANGED nEdits
  /\ IF GuardReturns
     THEN /\ lastClick' = "ignored"
          /\ UNCHANGED <<profile, cart, selectedTable, customerInfo,
                         isProcessingPayment, pc, sub, toast, totals, clock, issued>>
     ELSE /\ lastClick' = "started"
          /\ isProcessingPayment' = TRUE
          /\ pc' = "insertOrder"
          /\ \E d \in Elapsed : clock' = clock + d
          /\ issued' = Append(issued, [restaurant_id |-> UserRestaurant[profile],
                                       at |-> clock',
                                       order_number |-> generateOrderNumber(clock')])
          /\ sub' = [method |-> method, profile |-> profile, cart |-> cart,
                     table |-> selectedTable, customer |-> customerInfo,
                     totals |-> calculateTotals(cart), orderId |-> 0,
                     orderNumber |-> generateOrderNumber(clock'), failed |-> {},
                     resp |-> NULL, outcome |-> "running",
                     offline |-> ~isOnline, insertIssued |-> FALSE]
          /\ UNCHANGED <<profile, cart, selectedTable, customerInfo, toast, totals>>
  /\ UNCHANGED <<storeVars, edgeVars, offVars, rtVars, invVars>>

\* a click on Cash or Card/UPI; the buttons are disabled while isProcessingPayment
processPayment(method) ==
  /\ nClicks < MaxClicks
  /\ ~isProcessingPayment
  /\ nClicks' = nClicks + 1
  /\ UNCHANGED nEdits
  /\ IF GuardReturns
     THEN /\ lastClick' = "ignored"
          /\ UNCHANGED <<profile, cart, selectedTable, customerInfo,
                         isProcessingPayment, pc, sub, toast, totals, clock, issued>>
     ELSE /\ lastClick' = "started"
          /\ isProcessingPayment' = TRUE
          /\ pc' = "insertOrder"
          /\ \E d \in Elapsed : clock' = clock + d
          /\ issued' = Append(issued, [restaurant_id |-> UserRestaurant[profile],
                                       at |-> clock',
                                       order_number |-> generateOrderNumber(clock')])
          /\ sub' = [method |-> method, profile |-> profile, cart |-> cart,
                     table |-> selectedTable, customer |-> customerInfo,
                     totals |-> calculateTotals(cart), orderId |-> 0,
                     orderNumber |-> generateOrderNumber(clock'), failed |-> {},
                     resp |-> NULL, outcome |-> "running",
                     offline |-> ~isOnline, insertIssued |-> FALSE]
          /\ UNCHANGED <<profile, cart, selectedTable, customerInfo, toast, totals>>
  /\ UNCHANGED <<storeVars, edgeVars, offVars, rtVars, invVars>>

\* await supabase.from('orders').insert({...}).select().single()
InsertOrder(ok) ==
  /\ pc = "insertOrder"
  /\ ok => netOnline /\ ~UniqueViolation(orders, OrderRow(sub))
  /\ IF ok
     THEN /\ orders' = Append(orders, OrderRow(sub))
          /\ sub' = [sub EXCEPT !.orderId = Len(orders) + 1, !.insertIssued = TRUE]
          /\ pc' = "insertItems"
          /\ UNCHANGED <<profile, cart, selectedTable, customerInfo,
                         isProcessingPayment, toast, totals, nClicks, lastClick, clock, issued, nEdits>>
     ELSE /\ toast' = "Failed to create order"
          /\ isProcessingPayment' = FALSE
          /\ pc' = "idle"
          /\ sub' = [sub EXCEPT !.outcome = "error", !.insertIssued = TRUE,
                                !.failed = @ \cup {"order"}]
          /\ UNCHANGED <<profile, cart, selectedTable, customerInfo, totals,
                         nClicks, lastClick, clock, issued, nEdits, orders>>
  /\ UNCHANGED <<orderItems, payments, tables, gatewayOrders>>
  /\ UNCHANGED <<edgeVars, offVars, rtVars, invVars>>

\* the error of the order_items insert is not looked at
InsertOrderItems_IgnoresError(ok) ==
  /\ pc = "insertItems"
  /\ ok => netOnline
  /\ orderItems' = IF ok THEN orderItems \cup OrderItemRows(sub.cart, sub.orderId)
                   ELSE orderItems
  /\ sub' = IF ok THEN sub ELSE [sub EXCEPT !.failed = @ \cup {"items"}]
  /\ pc' = IF sub.table # NULL THEN "updateTable" ELSE "fetchPayment"
  /\ UNCHANGED <<profile, cart, selectedTable, customerInfo, isProcessingPayment,
                 toast, totals, nClicks, lastClick, clock, issued, nEdits>>
  /\ UNCHANGED <<orders, payments, tables, gatewayOrders>>
  /\ UNCHANGED <<edgeVars, offVars, rtVars, invVars>>

\* await supabase.from('order_items').insert(orderItems)
InsertOrderItems(ok) ==
  /\ pc = "insertItems"
  /\ ok => netOnline
  /\ IF ok
     THEN /\ orderItems' = orderItems \cup OrderItemRows(sub.cart, sub.orderId)
          /\ pc' = IF sub.table # NULL THEN "updateTable" ELSE "fetchPayment"
          /\ UNCHANGED <<profile, cart, selectedTable, customerInfo,
                         isProcessingPayment, sub, toast, totals, nClicks, lastClick, clock, issued, nEdits>>
     ELSE /\ Fail("Failed to add order items", "items")
          /\ UNCHANGED orderItems
  /\ UNCHANGED <<orders, payments, tables, gatewayOrders>>
  /\ UNCHANGED <<edgeVars, offVars, rtVars, invVars>>

\* if (selectedTable) await supabase.from('tables').update({status: 'occupied'})
UpdateTable(ok) ==
  /\ pc = "updateTable"
  /\ ok => netOnline
  /\ tables' = IF ok THEN [tables EXCEPT ![sub.table] = "occupied"] ELSE tables
  /\ sub' = IF ok THEN sub ELSE [sub EXCEPT !.failed = @ \cup {"table"}]
  /\ pc' = "fetchPayment"
  /\ UNCHANGED <<profile, cart, selectedTable, customerInfo,
                 isProcessingPayment, toast, totals, nClicks, lastClick, clock, issued, nEdits>>
  /\ UNCHANGED <<orders, orderItems, payments, gatewayOrders>>
  /\ UNCHANGED <<edgeVars, offVars, rtVars, invVars>>

\* the edge function runs for a request with these parameters
Serve(from, token, order_id, amount, method, gwAnswer, insOk, updOk) ==
  LET r == createPayment(token, order_id, amount, method, gwAnswer, insOk, updOk) IN
  /\ orders' = r.orders
  /\ payments' = r.payments
  /\ gatewayOrders' = r.gatewayOrders
  /\ lastCall' = [n |-> lastCall.n + 1, from |-> from, token |-> token,
                  order_id |-> order_id, amount |-> amount, method |-> method,
                  gateway |-> r.gateway, insert |-> r.insert,
                  response |-> ResponseOf(r)]
  /\ UNCHANGED <<orderItems, tables>>

\* await fetch('/functions/v1/create-payment', ...): the request is lost
FetchPaymentFails ==
  /\ pc = "fetchPayment"
  /\ Fail("Failed to fetch", "transport")
  /\ UNCHANGED <<storeVars, edgeVars, offVars, rtVars, invVars>>

\* await fetch('/functions/v1/create-payment', ...): the request is served
FetchPayment(gwAnswer, insOk, updOk) ==
  /\ pc = "fetchPayment"
  /\ netOnline
  /\ Serve("pos", TokenOf(sub.profile), sub.orderId, sub.totals.total,
           sub.method, gwAnswer, insOk, updOk)
  /\ pc' = "awaitResponse"
  /\ LET resp == ResponseOf(createPayment(TokenOf(sub.profile), sub.orderId,
                             sub.totals.total, sub.method, gwAnswer, insOk, updOk))
     IN sub' = [sub EXCEPT !.resp = resp,
                  !.failed = IF resp.success THEN @ ELSE @ \cup {"payment"}]
  /\ UNCHANGED <<profile, cart, selectedTable, customerInfo,
                 isProcessingPayment, toast, totals, nClicks, lastClick, clock, issued, nEdits>>
  /\ UNCHANGED <<nDirect, offVars, rtVars, invVars>>

\* the customer's name and phone are kept
clearOrder_KeepsCustomer ==
  /\ cart' = <<>>
  /\ UNCHANGED customerInfo
  /\ selectedTable' = NULL
  /\ totals' = calculateTotals(cart')

\* setCart([]); setCustomerInfo({name: '', phone: ''}); setSelectedTable(null)
clearOrder ==
  /\ cart' = <<>>
  /\ customerInfo' = EmptyCustomer
  /\ selectedTable' = NULL
  /\ totals' = calculateTotals(cart')

\* const paymentData = await paymentResponse.json() and what follows
PaymentResponse(delivered) ==
  /\ pc = "awaitResponse"
  /\ delivered => netOnline
  /\ IF delivered /\ sub.resp.success
     THEN /\ toast' = IF sub.method = "razorpay"
                      THEN "Payment initiated successfully!"
                      ELSE "Order completed successfully!"
          /\ clearOrder
          /\ isProcessingPayment' = FALSE
          /\ pc' = "idle"
          /\ sub' = [sub EXCEPT !.outcome = "success"]
          /\ UNCHANGED <<profile, nClicks, lastClick, clock, issued, nEdits>>
     ELSE IF delivered THEN Fail(sub.resp.error, "payment")
          ELSE Fail("Failed to fetch", "transport")
  /\ UNCHANGED <<storeVars, edgeVars, offVars, rtVars, invVars>>

(* ------------------ requests from other callers ------------------------ *)
DirectAmounts == {0 - 100000, 0, 1505000}
\* ids of the stored orders, an id no order has, and a request without order_id
DirectOrderIds == 0..(Len(orders) + 1)
\* the method of the request body is any string: the three of PaymentRequest
\* and one outside of them
DirectMethods == Methods \cup {"invalid"}

DirectInitiatePayment(token, order_id, amount, method, gwAnswer, insOk, updOk) ==
  /\ nDirect < MaxDirect
  /\ nDirect' = nDirect + 1
  /\ Serve("direct", token, order_id, amount, method, gwAnswer, insOk, updOk)
  /\ UNCHANGED <<posVars, offVars, rtVars, invVars>>

(* ---------------------------- useOfflineSync --------------------------- *)
\* window 'offline' event
handleOffline ==
  /\ netOnline
  /\ netOnline' = FALSE
  /\ isOnline' = FALSE
  /\ toast' = "You are offline"
  /\ UNCHANGED <<pendingOrders, localStorage, syncs, insertLog, nAdded>>
  /\ UNCHANGED <<profile, cart, selectedTable, customerInfo, isProcessingPayment,
                 pc, sub, totals, nClicks, lastClick, clock, issued>>
  /\ UNCHANGED <<storeVars, edgeVars, rtVars, invVars>>

\* one supabase.from('orders').insert(order) call issued by a sync
InsertCall(order) == [order |-> order, result |-> "pending"]

\* syncPendingOrders up to its first await: reads the stored buffer and
\* issues the insert of its first order; with nothing stored it runs to its end
StartSync ==
  LET pending == localStorage IN
  IF pending = <<>>
  THEN /\ localStorage' = <<>>
       /\ pendingOrders' = <<>>
       /\ UNCHANGED <<syncs, insertLog>>
  ELSE /\ Len(syncs) < MaxSyncs
       /\ insertLog' = Append(insertLog, InsertCall(pending[1]))
       /\ syncs' = Append(syncs, [pending |-> pending, i |-> 1,
                                  call |-> Len(insertLog) + 1, done |-> FALSE])
       /\ UNCHANGED <<localStorage, pendingOrders>>

\* window 'online' event: setIsOnline(true); syncPendingOrders(); toast
handleOnline ==
  /\ ~netOnline
  /\ netOnline' = TRUE
  /\ isOnline' = TRUE
  /\ StartSync
  /\ toast' = "Back online! Syncing data..."
  /\ UNCHANGED nAdded
  /\ UNCHANGED <<profile, cart, selectedTable, customerInfo, isProcessingPayment,
                 pc, sub, totals, nClicks, lastClick, clock, issued>>
  /\ UNCHANGED <<storeVars, edgeVars, rtVars, invVars>>

\* an awaited insert of a running sync returns; the loop goes on or ends
SyncInsertReturns(s, ok) ==
  /\ s \in 1..Len(syncs)
  /\ ~syncs[s].done
  /\ ok => netOnline
  /\ LET y == syncs[s]
         logged == [insertLog EXCEPT ![y.call].result = IF ok THEN "ok" ELSE "error"]
     IN IF y.i < Len(y.pending)
        THEN /\ insertLog' = Append(logged, InsertCall(y.pending[y.i + 1]))
             /\ syncs' = [syncs EXCEPT ![s].i = y.i + 1, ![s].call = Len(insertLog) + 1]
             /\ UNCHANGED <<localStorage, pendingOrders, toast>>
        ELSE /\ insertLog' = logged
             /\ syncs' = [syncs EXCEPT ![s].done = TRUE]
             /\ localStorage' = <<>>
             /\ pendingOrders' = <<>>
             /\ toast' = "All offline orders synced!"
  /\ UNCHANGED <<netOnline, isOnline, nAdded>>
  /\ UNCHANGED <<profile, cart, selectedTable, customerInfo, isProcessingPayment,
                 pc, sub, totals, nClicks, lastClick, clock, issued, nEdits>>
  /\ UNCHANGED <<storeVars, edgeVars, rtVars, invVars>>

addOfflineOrder(order) ==
  LET updated == Append(pendingOrders, order) IN
  /\ nAdded < MaxOffline
  /\ order = nAdded + 1
  /\ nAdded' = nAdded + 1
  /\ pendingOrders' = updated
  /\ localStorage' = updated
  /\ toast' = "Order saved offline"
  /\ UNCHANGED <<netOnline, isOnline, syncs, insertLog>>
  /\ UNCHANGED <<profile, cart, selectedTable, customerInfo, isProcessingPayment,
                 pc, sub, totals, nClicks, lastClick, clock, issued, nEdits>>
  /\ UNCHANGED <<storeVars, edgeVars, rtVars, invVars>>

(* --------------------------- useRealtimeOrders ------------------------- *)
RtIds == 1..MaxRtOrders
RtStatuses == {"pending", "ready", "served"}

RowIds(rows) == {rows[i].id : i \in 1..Len(rows)}

\* the orders 1..MaxRtOrders are orders of restaurant r1
OrderOf(id, status) == [id |-> id, restaurant_id |-> "r1", status |-> status]

\* the one order of restaurant r2; it never changes
OtherTenantRows ==
  <<[id |-> MaxRtOrders + 1, restaurant_id |-> "r2", status |-> "pending"]>>

\* the channel of the hook's effect: topic orders:<restaurantId>, filter
\* restaurant_id=eq.<restaurantId>
Channel(tenant, state) == [topic |-> tenant, state |-> state]

\* events of restaurant r1 reach the client through a joined channel of r1
Delivers == Channel("r1", "joined") \in channels

\* select('*').eq('restaurant_id', restaurantId).order('created_at', {ascending: false})
RECURSIVE Newest(_, _)
Newest(srv, n) ==
  IF n = 0 THEN <<>>
  ELSE (IF srv[n] \in RtStatuses THEN <<OrderOf(n, srv[n])>> ELSE <<>>)
       \o Newest(srv, n - 1)

\* setOrders(prev => [payload.new, ...prev])
ApplyInsert(prev, row) == <<row>> \o prev

\* setOrders(prev => prev.map(order => order.id === payload.new.id ? payload.new : order))
ApplyUpdate(prev, row) ==
  [i \in 1..Len(prev) |-> IF prev[i].id = row.id THEN row ELSE prev[i]]

\* the deleted row stays in the list
ApplyDelete_KeepsRow(prev, id) == prev

\* setOrders(prev => prev.filter(order => order.id !== payload.old.id))
RECURSIVE ApplyDelete(_, _)
ApplyDelete(prev, id) ==
  IF prev = <<>> THEN <<>>
  ELSE IF Head(prev).id = id THEN ApplyDelete(Tail(prev), id)
       ELSE <<Head(prev)>> \o ApplyDelete(Tail(prev), id)

\* the "is ready!" toast of the postgres_changes callback
NotifiesReady(ev) == ev.type = "UPDATE" /\ ev.row.status = "ready"

EventKind(ev) ==
  IF ev.type = "UPDATE"
  THEN (IF ev.row.status = "ready" THEN "UPDATE_ready" ELSE "UPDATE_other")
  ELSE ev.type

EventsMade == Len(feed) + Cardinality({<<id, k>> \in RtIds \X (1..MaxEvents) :
                                         k <= Len(hist[id])})

rtFrame == UNCHANGED <<posVars, storeVars, edgeVars, offVars, invVars, lifeVars>>

\* another client inserts an order of the tenant
ServerInsert(id, status) ==
  /\ EventsMade < MaxEvents
  /\ serverOrders[id] = "none"
  /\ \A j \in RtIds : j < id => serverOrders[j] # "none"
  /\ serverOrders' = [serverOrders EXCEPT ![id] = status]
  /\ feed' = IF Delivers
             THEN Append(feed, [type |-> "INSERT", row |-> OrderOf(id, status),
                                old |-> NULL, topic |-> "r1"])
             ELSE feed
  /\ UNCHANGED <<fetchState, localOrders, hist, readyToasts>>
  /\ rtFrame

\* staff change a row of an order (its status or another column); old is the
\* status of the row before the change
ServerUpdate(id, status) ==
  /\ EventsMade < MaxEvents
  /\ serverOrders[id] \in RtStatuses
  /\ serverOrders' = [serverOrders EXCEPT ![id] = status]
  /\ feed' = IF Delivers
             THEN Append(feed, [type |-> "UPDATE", row |-> OrderOf(id, status),
                                old |-> serverOrders[id], topic |-> "r1"])
             ELSE feed
  /\ UNCHANGED <<fetchState, localOrders, hist, readyToasts>>
  /\ rtFrame

ServerDelete(id) ==
  /\ EventsMade < MaxEvents
  /\ serverOrders[id] \in RtStatuses
  /\ serverOrders' = [serverOrders EXCEPT ![id] = "deleted"]
  /\ feed' = IF Delivers
             THEN Append(feed, [type |-> "DELETE", row |-> OrderOf(id, NULL),
                                old |-> serverOrders[id], topic |-> "r1"])
             ELSE feed
  /\ UNCHANGED <<fetchState, localOrders, hist, readyToasts>>
  /\ rtFrame

\* what the select of fetchOrders returns for a restaurant
FetchResult(tenant) ==
  IF tenant = "r1" THEN Newest(serverOrders, MaxRtOrders) ELSE OtherTenantRows

\* the server answers the select of fetchOrders
FetchServed ==
  /\ fetchState.at = "requested"
  /\ fetchState' = [fetchState EXCEPT !.at = "answered",
                                      !.data = FetchResult(fetchState.tenant)]
  /\ UNCHANGED <<serverOrders, feed, localOrders, hist, readyToasts>>
  /\ rtFrame

\* fetchOrders after its await: setOrders(data || []) unless error
FetchReturns(ok) ==
  /\ fetchState.at = "answered"
  /\ fetchState' = [fetchState EXCEPT !.at = IF ok THEN "done" ELSE "failed",
                                      !.data = <<>>]
  /\ localOrders' = IF ok THEN fetchState.data ELSE localOrders
  /\ UNCHANGED <<serverOrders, feed, hist, readyToasts>>
  /\ rtFrame

\* the postgres_changes callback runs for the next event of the channel
OnPostgresChange ==
  /\ feed # <<>>
  /\ LET ev == Head(feed) IN
     /\ feed' = Tail(feed)
     /\ localOrders' = IF ev.type = "INSERT" THEN ApplyInsert(localOrders, ev.row)
                       ELSE IF ev.type = "UPDATE" THEN ApplyUpdate(localOrders, ev.row)
                       ELSE ApplyDelete(localOrders, ev.row.id)
     /\ readyToasts' = IF NotifiesReady(ev)
                       THEN [readyToasts EXCEPT ![ev.row.id] = @ + 1]
                       ELSE readyToasts
     /\ hist' = [hist EXCEPT ![ev.row.id] = Append(@, EventKind(ev))]
  /\ UNCHANGED <<serverOrders, fetchState>>
  /\ rtFrame

(* ------------------ life of a useRealtimeOrders instance --------------- *)
lifeFrame == UNCHANGED <<posVars, storeVars, edgeVars, offVars, invVars>>

\* the channel of the effect stays subscribed
RemoveChannel_Leaks(chs, tenant) == chs

\* the effect's cleanup: if (channel) supabase.removeChannel(channel)
RemoveChannel(chs, tenant) == {c \in chs : c.topic # tenant}

\* a fetchOrders call that has not returned keeps running after its effect
\* was cleaned up
StillRunning(f) == f.at \in {"requested", "answered"}

\* the cleanup of the running effect, then the effect for the new prop:
\* nothing for null, else fetchOrders() and setupRealtimeSubscription().
\* Events of the removed channel that the callback has not seen are dropped.
setRestaurantId(r) ==
  /\ mounted
  /\ nLife < MaxLife
  /\ r # restaurantId
  /\ nLife' = nLife + 1
  /\ restaurantId' = r
  /\ staleFetches' = IF StillRunning(fetchState)
                     THEN Append(staleFetches, fetchState) ELSE staleFetches
  /\ feed' = IF RemoveChannel(channels, restaurantId) = channels THEN feed ELSE <<>>
  /\ IF r = NULL
     THEN /\ channels' = RemoveChannel(channels, restaurantId)
          /\ fetchState' = [at |-> "idle", tenant |-> NULL, data |-> <<>>]
     ELSE /\ channels' = RemoveChannel(channels, restaurantId)
                            \cup {Channel(r, "joined")}
          /\ fetchState' = [at |-> "requested", tenant |-> r, data |-> <<>>]
  /\ UNCHANGED <<serverOrders, localOrders, hist, readyToasts, mounted>>
  /\ lifeFrame

\* the view unmounts: the cleanup runs
Unmount ==
  /\ mounted
  /\ nLife < MaxLife
  /\ nLife' = nLife + 1
  /\ mounted' = FALSE
  /\ channels' = RemoveChannel(channels, restaurantId)
  /\ feed' = IF RemoveChannel(channels, restaurantId) = channels THEN feed ELSE <<>>
  /\ staleFetches' = IF StillRunning(fetchState)
                     THEN Append(staleFetches, fetchState) ELSE staleFetches
  /\ fetchState' = [at |-> "idle", tenant |-> NULL, data |-> <<>>]
  /\ UNCHANGED <<serverOrders, localOrders, hist, readyToasts, restaurantId>>
  /\ lifeFrame

\* a fetchOrders of an earlier effect run returns and calls setOrders; after
\* the unmount the call has no effect
StaleFetchReturns(ok) ==
  /\ staleFetches # <<>>
  /\ LET f == Head(staleFetches)
         data == IF f.at = "answered" THEN f.data ELSE FetchResult(f.tenant)
     IN localOrders' = IF ok /\ mounted THEN data ELSE localOrders
  /\ staleFetches' = Tail(staleFetches)
  /\ UNCHANGED <<serverOrders, feed, fetchState, hist, readyToasts,
                 restaurantId, mounted, channels, nLife>>
  /\ lifeFrame

\* the websocket of the channel is lost
ChannelDrops ==
  /\ nLife < MaxLife
  /\ nLife' = nLife + 1
  /\ \E c \in channels :
       /\ c.state = "joined"
       /\ channels' = (channels \ {c}) \cup {Channel(c.topic, "down")}
  /\ UNCHANGED <<serverOrders, feed, fetchState, localOrders, hist, readyToasts,
                 restaurantId, mounted, staleFetches>>
  /\ lifeFrame

\* the client library rejoins the channel; the hook has no handler for it
ChannelRejoins ==
  /\ \E c \in channels :
       /\ c.state = "down"
       /\ channels' = (channels \ {c}) \cup {Channel(c.topic, "joined")}
  /\ UNCHANGED <<serverOrders, feed, fetchState, localOrders, hist, readyToasts,
                 restaurantId, mounted, staleFetches, nLife>>
  /\ lifeFrame

(* --------------------------- inventory page ---------------------------- *)
\* texts are sequences of characters
All == <<"A", "l", "l">>
Dairy == <<"D", "a", "i", "r", "y">>
\* a null category; the page treats it like the empty text
NoCategory == <<>>
StatusOptions == {"All", "Low Stock", "Out of Stock", "In Stock"}
SearchQueries == {<<>>, <<"m", "i">>, <<"D", "A">>}

\* the rows of the restaurant, ordered by item_name
InventoryItem(id, name, category, current, minimum) ==
  [id |-> id, item_name |-> name, category |-> category,
   current_stock |-> current, minimum_stock |-> minimum]

InventoryData ==
  {<<InventoryItem(1, <<"B", "e", "a", "n", "s">>, NoCategory, c1, m1),
     InventoryItem(2, <<"M", "i", "l", "k">>, Dairy, c2, m2),
     InventoryItem(3, <<"R", "i", "c", "e">>, NoCategory, c3, m3)>> :
     <<c1, m1, c2, m2, c3, m3>> \in
       (0..MaxStock) \X (0..MaxStock) \X (0..MaxStock) \X
       (0..MaxStock) \X (0..MaxStock) \X (0..MaxStock)}

\* String.prototype.toLowerCase on the letters that occur
ToLowerCase(text) ==
  [i \in 1..Len(text) |->
     IF text[i] = "A" THEN "a" ELSE IF text[i] = "B" THEN "b"
     ELSE IF text[i] = "D" THEN "d" ELSE IF text[i] = "M" THEN "m"
     ELSE IF text[i] = "R" THEN "r" ELSE text[i]]

\* String.prototype.includes
Includes(text, q) ==
  \E k \in 0..(Len(text) - Len(q)) : SubSeq(text, k + 1, k + Len(q)) = q

MatchesSearch(item, q) ==
  \/ Includes(ToLowerCase(item.item_name), ToLowerCase(q))
  \/ item.category # NoCategory /\ Includes(ToLowerCase(item.category), ToLowerCase(q))

MatchesCategory(item, category) == category = All \/ item.category = category

\* an item at its minimum is not low
MatchesStatus_StrictLow(item, status) ==
  IF status = "Low Stock" THEN item.current_stock < item.minimum_stock
  ELSE IF status = "Out of Stock" THEN item.current_stock = 0
  ELSE IF status = "In Stock" THEN item.current_stock > item.minimum_stock
  ELSE TRUE

MatchesStatus(item, status) ==
  IF status = "Low Stock" THEN item.current_stock <= item.minimum_stock
  ELSE IF status = "Out of Stock" THEN item.current_stock = 0
  ELSE IF status = "In Stock" THEN item.current_stock > item.minimum_stock
  ELSE TRUE

\* inventory.filter(item => matchesSearch && matchesCategory && matchesStatus)
RECURSIVE FilterInventory(_, _, _, _)
FilterInventory(items, q, category, status) ==
  IF items = <<>> THEN <<>>
  ELSE LET item == Head(items)
           rest == FilterInventory(Tail(items), q, category, status)
       IN IF /\ MatchesSearch(item, q)
             /\ MatchesCategory(item, category)
             /\ MatchesStatus(item, status)
          THEN <<item>> \o rest ELSE rest

invFrame == UNCHANGED <<posVars, storeVars, edgeVars, offVars, rtVars>>

\* fetchInventory returns the rows; the effect on [inventory, ...] filters them
FetchInventoryReturns(data) ==
  /\ inventory = <<>>
  /\ inventory' = data
  /\ filteredInventory' = FilterInventory(data, searchQuery, selectedCategory, filterStatus)
  /\ UNCHANGED <<searchQuery, selectedCategory, filterStatus>>
  /\ invFrame

setSearchQuery(q) ==
  /\ searchQuery # q
  /\ searchQuery' = q
  /\ filteredInventory' = FilterInventory(inventory, q, selectedCategory, filterStatus)
  /\ UNCHANGED <<inventory, selectedCategory, filterStatus>>
  /\ invFrame

\* the options are 'All' and the categories of the loaded items
setSelectedCategory(category) ==
  /\ selectedCategory # category
  /\ category = All \/ \E i \in 1..Len(inventory) : inventory[i].category = category
  /\ selectedCategory' = category
  /\ filteredInventory' = FilterInventory(inventory, searchQuery, category, filterStatus)
  /\ UNCHANGED <<inventory, searchQuery, filterStatus>>
  /\ invFrame

setFilterStatus(status) ==
  /\ filterStatus # status
  /\ filterStatus' = status
  /\ filteredInventory' = FilterInventory(inventory, searchQuery, selectedCategory, status)
  /\ UNCHANGED <<inventory, searchQuery, selectedCategory>>
  /\ invFrame

(* ------------------------------- Init ---------------------------------- *)
InitInv ==
  /\ inventory = <<>>
  /\ filteredInventory = <<>>
  /\ searchQuery = <<>>
  /\ selectedCategory = All
  /\ filterStatus = "All"

InitPos ==
  /\ cart = <<>>
  /\ selectedTable = NULL
  /\ customerInfo = EmptyCustomer
  /\ isProcessingPayment = FALSE
  /\ pc = "idle"
  /\ sub = NoSub
  /\ toast = "none"
  /\ totals = calculateTotals(<<>>)
  /\ nClicks = 0
  /\ lastClick = "none"
  /\ clock = 0
  /\ issued = <<>>
  /\ nEdits = 0

InitStore ==
  /\ orders = <<>>
  /\ orderItems = {}
  /\ payments = <<>>
  /\ tables = [t \in TableIds |-> "available"]
  /\ gatewayOrders = <<>>
  /\ lastCall = [n |-> 0, from |-> NULL, token |-> NULL, order_id |-> 0,
                 amount |-> 0, method |-> NULL, gateway |-> "not called",
                 insert |-> "not called", response |-> NULL]
  /\ nDirect = 0

InitOff ==
  /\ netOnline = TRUE
  /\ isOnline = TRUE
  /\ syncs = <<>>
  /\ insertLog = <<>>
  /\ nAdded = 0

InitRt ==
  /\ feed = <<>>
  /\ fetchState = [at |-> "requested", tenant |-> "r1", data |-> <<>>]
  /\ restaurantId = "r1"
  /\ mounted = TRUE
  /\ channels = {Channel("r1", "joined")}
  /\ staleFetches = <<>>
  /\ nLife = 0
  /\ localOrders = <<>>
  /\ hist = [id \in RtIds |-> <<>>]
  /\ readyToasts = [id \in RtIds |-> 0]

\* the POS page of a signed-in user (or before the profile has loaded)
Init ==
  /\ profile \in Users \cup {NULL}
  /\ InitPos /\ InitStore /\ InitOff /\ InitRt /\ InitInv
  /\ localStorage = <<>>
  /\ pendingOrders = <<>>
  /\ serverOrders = [id \in RtIds |-> "none"]

\* closures of submissions the POS page makes, and the rows they leave
SampleSub(uid, item) ==
  LET c == <<[id |-> item, price |-> MenuPrice[item], quantity |-> 1]>> IN
  [method |-> "cash", profile |-> uid, cart |-> c, table |-> NULL,
   customer |-> EmptyCustomer, totals |-> calculateTotals(c),
   orderNumber |-> generateOrderNumber(1)]

\* the edge function in front of a database holding orders of two restaurants
InitEdge ==
  /\ profile = NULL
  /\ InitPos /\ InitOff /\ InitRt /\ InitInv
  /\ orders \in {<<OrderRow(SampleSub("u1", "m1"))>>,
                 <<OrderRow(SampleSub("u1", "m1")), OrderRow(SampleSub("u2", "m2"))>>}
  /\ orderItems = UNION {OrderItemRows(SampleSub(orders[i].created_by,
                            IF i = 1 THEN "m1" ELSE "m2").cart, i) : i \in 1..Len(orders)}
  /\ payments = <<>>
  /\ tables = [t \in TableIds |-> "available"]
  /\ gatewayOrders = <<>>
  /\ lastCall = [n |-> 0, from |-> NULL, token |-> NULL, order_id |-> 0,
                 amount |-> 0, method |-> NULL, gateway |-> "not called",
                 insert |-> "not called", response |-> NULL]
  /\ nDirect = 0
  /\ localStorage = <<>>
  /\ pendingOrders = <<>>
  /\ serverOrders = [id \in RtIds |-> "none"]

\* useOfflineSync mounted; the buffer may hold an order of an earlier session
InitOffline ==
  /\ profile = NULL
  /\ InitPos /\ InitStore /\ InitOff /\ InitRt /\ InitInv
  /\ localStorage \in {<<>>, <<0>>}
  /\ pendingOrders = localStorage
  /\ serverOrders = [id \in RtIds |-> "none"]

\* useRealtimeOrders mounted: fetchOrders requested, channel subscribed
InitRealtime ==
  /\ profile = NULL
  /\ InitPos /\ InitStore /\ InitOff /\ InitRt /\ InitInv
  /\ localStorage = <<>>
  /\ pendingOrders = <<>>
  /\ serverOrders \in {[id \in RtIds |-> "none"],
                       [id \in RtIds |-> IF id = 1 THEN "pending" ELSE "none"]}

\* the inventory page mounted
InitInventory ==
  /\ profile = "u1"
  /\ InitPos /\ InitStore /\ InitOff /\ InitRt /\ InitInv
  /\ localStorage = <<>>
  /\ pendingOrders = <<>>
  /\ serverOrders = [id \in RtIds |-> "none"]

\* the hook mounted, before or after the profile has loaded
InitLifecycle ==
  /\ profile = NULL
  /\ InitPos /\ InitStore /\ InitOff /\ InitInv
  /\ localStorage = <<>>
  /\ pendingOrders = <<>>
  /\ serverOrders = [id \in RtIds |-> IF id = 1 THEN "pending" ELSE "none"]
  /\ feed = <<>>
  /\ localOrders = <<>>
  /\ hist = [id \in RtIds |-> <<>>]
  /\ readyToasts = [id \in RtIds |-> 0]
  /\ restaurantId \in {NULL, "r1"}
  /\ mounted = TRUE
  /\ channels = IF restaurantId = NULL THEN {} ELSE {Channel(restaurantId, "joined")}
  /\ fetchState = IF restaurantId = NULL
                  THEN [at |-> "idle", tenant |-> NULL, data |-> <<>>]
                  ELSE [at |-> "requested", tenant |-> restaurantId, data |-> <<>>]
  /\ staleFetches = <<>>
  /\ nLife = 0

(* ------------------------------- Next ---------------------------------- *)
Next ==
  \/ \E m \in MenuItems : addToCart(m)
  \/ \E m \in MenuItems, q \in 0..MaxQty :
       HasLine(cart, m) /\ q \in {QuantityOf(cart, m) - 1, QuantityOf(cart, m) + 1}
       /\ updateQuantity(m, q)
  \/ \E m \in MenuItems : removeFromCart(m)
  \/ \E t \in TableIds \cup {NULL} :
       (t # NULL => profile # NULL /\ t \in TablesOf(profile)) /\ setSelectedTable(t)
  \/ \E info \in {EmptyCustomer, FilledCustomer} : setCustomerInfo(info)
  \/ \E m \in {"cash", "razorpay"} : processPayment(m)
  \/ \E ok \in BOOLEAN : InsertOrder(ok)
  \/ \E ok \in BOOLEAN : InsertOrderItems(ok)
  \/ \E ok \in BOOLEAN : UpdateTable(ok)
  \/ FetchPaymentFails
  \/ \E gwAnswer \in GatewayAnswers, insOk, updOk \in BOOLEAN :
       FetchPayment(gwAnswer, insOk, updOk)
  \/ \E delivered \in BOOLEAN : PaymentResponse(delivered)
  \/ nEdits < MaxEdits /\ nEdits' = nEdits + 1 /\ handleOffline
  \/ nEdits < MaxEdits /\ nEdits' = nEdits + 1 /\ handleOnline

NextOffline ==
  \/ handleOffline /\ UNCHANGED nEdits
  \/ handleOnline /\ UNCHANGED nEdits
  \/ \E s \in 1..MaxSyncs, ok \in BOOLEAN : SyncInsertReturns(s, ok)
  \/ \E o \in 1..MaxOffline : addOfflineOrder(o)

NextEdge ==
  \E token \in Tokens, order_id \in DirectOrderIds, amount \in DirectAmounts,
     method \in DirectMethods, gwAnswer \in GatewayAnswers, insOk, updOk \in BOOLEAN :
    DirectInitiatePayment(token, order_id, amount, method, gwAnswer, insOk, updOk)

NextRealtime ==
  \/ \E id \in RtIds, st \in {"pending", "ready"} : ServerInsert(id, st)
  \/ \E id \in RtIds, st \in RtStatuses : ServerUpdate(id, st)
  \/ \E id \in RtIds : ServerDelete(id)
  \/ FetchServed
  \/ \E ok \in BOOLEAN : FetchReturns(ok)
  \/ OnPostgresChange

NextInventory ==
  \/ \E data \in InventoryData : FetchInventoryReturns(data)
  \/ \E q \in SearchQueries : setSearchQuery(q)
  \/ \E category \in {All, Dairy} : setSelectedCategory(category)
  \/ \E status \in StatusOptions : setFilterStatus(status)

NextLifecycle ==
  \/ EventsMade < MaxLifeEvents /\ \E id \in RtIds : ServerInsert(id, "pending")
  \/ EventsMade < MaxLifeEvents /\ \E id \in RtIds : ServerUpdate(id, "ready")
  \/ FetchServed
  \/ \E ok \in BOOLEAN : FetchReturns(ok)
  \/ OnPostgresChange
  \/ \E r \in {NULL, "r1", "r2"} : setRestaurantId(r)
  \/ Unmount
  \/ \E ok \in BOOLEAN : StaleFetchReturns(ok)
  \/ ChannelDrops
  \/ ChannelRejoins

Spec == Init /\ [][Next]_vars
SpecLifecycle == InitLifecycle /\ [][NextLifecycle]_vars
SpecInventory == InitInventory /\ [][NextInventory]_vars
SpecEdge == InitEdge /\ [][NextEdge]_vars
SpecOffline == InitOffline /\ [][NextOffline]_vars
SpecRealtime == InitRealtime /\ [][NextRealtime]_vars

(* ============================== claims ================================= *)
PaymentsOf(ps, order_id) == {i \in 1..Len(ps) : ps[i].order_id = order_id}

\* C1: a cash submission that the client reports as successful has left its
\* Order row served (served_by and served_at set) with the computed total as
\* total_amount (as a decimal(10,2) value), and exactly one Payment row for
\* it, which is completed, cash and has processed_at set.
C1_CashSubmissionServed ==
  (sub.outcome = "success" /\ sub.method = "cash") =>
    /\ sub.orderId \in 1..Len(orders)
    /\ orders[sub.orderId].status = "served"
    /\ orders[sub.orderId].served_by # NULL
    /\ orders[sub.orderId].served_at # NULL
    /\ orders[sub.orderId].total_amount = Decimal2(sub.totals.total)
    /\ Cardinality(PaymentsOf(payments, sub.orderId)) = 1
    /\ \A i \in PaymentsOf(payments, sub.orderId) :
         /\ payments[i].payment_status = "completed"
         /\ payments[i].payment_method = "cash"
         /\ payments[i].processed_at # NULL

\* C2: after a successful razorpay submission there is exactly one Payment
\* row of its order, with status pending, a gateway order reference and no
\* processed_at, and the Order is still pending; no run of the edge function
\* for a method other than cash changes any Order.
C2_RazorpayLeavesOrderPending ==
  [][/\ (sub'.outcome = "success" /\ sub'.method = "razorpay") =>
          /\ sub'.orderId \in 1..Len(orders')
          /\ orders'[sub'.orderId].status = "pending"
          /\ Cardinality(PaymentsOf(payments', sub'.orderId)) = 1
          /\ \A i \in PaymentsOf(payments', sub'.orderId) :
               /\ payments'[i].payment_status = "pending"
               /\ payments'[i].payment_method = "razorpay"
               /\ payments'[i].razorpay_order_id # NullId
               /\ payments'[i].razorpay_order_id \in 1..Len(gatewayOrders')
               /\ payments'[i].processed_at = NULL
     /\ (lastCall'.n # lastCall.n /\ lastCall'.method # "cash") => orders' = orders
    ]_vars

C2_Witness ==
  /\ sub.outcome = "success"
  /\ sub.method = "razorpay"
  /\ Cardinality(PaymentsOf(payments, sub.orderId)) = 1
  /\ orders[sub.orderId].status = "pending"

\* C3: once a submission has returned, every Order row has OrderItems.
C3_OrderHasItems ==
  ~isProcessingPayment =>
    \A i \in 1..Len(orders) : \E r \in orderItems : r.order_id = i

\* the caller of call c is signed in and belongs to another restaurant than
\* the order the call names
CrossTenantCall(c, os) ==
  /\ c.n > 0
  /\ GetUser(c.token) \in Users
  /\ c.order_id \in 1..Len(os)
  /\ UserRestaurant[GetUser(c.token)] # os[c.order_id].restaurant_id

StoresUntouched == UNCHANGED <<orders, orderItems, payments, tables, gatewayOrders>>

\* C4 as stated: a call by a signed-in user of another restaurant fails with
\* Access denied and writes nothing, for every method and amount.
C4_AccessDeniedEveryAmount ==
  [][(lastCall'.n # lastCall.n /\ CrossTenantCall(lastCall', orders)) =>
       /\ lastCall'.response.error = "Access denied"
       /\ StoresUntouched
    ]_vars

\* C4 amended: a call by a signed-in user of another restaurant fails and
\* creates no gateway order, writes no Payment row and leaves the Order
\* unchanged, for every method and amount; the error is Access denied for
\* every amount > 0.
C4_AccessDeniedPositiveAmount ==
  [][(lastCall'.n # lastCall.n /\ CrossTenantCall(lastCall', orders)) =>
       /\ ~lastCall'.response.success
       /\ lastCall'.response.httpStatus = 400
       /\ lastCall'.amount > 0 => lastCall'.response.error = "Access denied"
       /\ StoresUntouched
    ]_vars

C4_Witness ==
  /\ CrossTenantCall(lastCall, orders)
  /\ lastCall.amount > 0
  /\ lastCall.method = "cash"
  /\ lastCall.response.error = "Access denied"
  /\ payments = <<>>

\* C5: a call with amount <= 0 fails, whatever its method, and creates no
\* gateway order, writes no Payment row and leaves every Order unchanged;
\* when the caller's credential resolves to a user the error is
\* Invalid payment request.
C5_NonPositiveAmountRejected ==
  [][(lastCall'.n # lastCall.n /\ lastCall'.amount <= 0) =>
       /\ ~lastCall'.response.success
       /\ lastCall'.response.httpStatus = 400
       /\ GetUser(lastCall'.token) # NULL =>
            lastCall'.response.error = "Invalid payment request"
       /\ StoresUntouched
    ]_vars

C5_Witness ==
  /\ lastCall.n > 0
  /\ lastCall.amount < 0
  /\ lastCall.method = "cash"
  /\ lastCall.order_id \in 1..Len(orders)
  /\ lastCall.response.error = "Invalid payment request"
  /\ payments = <<>>

\* a call of processPayment with an empty cart
EmptyCartClick == nClicks' # nClicks /\ Len(cart) = 0

RECURSIVE Sigma(_, _)
Sigma(c, n) == IF n = 0 THEN 0 ELSE Sigma(c, n - 1) + c[n].price * c[n].quantity

C8_InsertReadyDelete ==
  [][\A id \in RtIds :
       (/\ hist[id] = <<"INSERT", "UPDATE_ready">>
        /\ hist'[id] = <<"INSERT", "UPDATE_ready", "DELETE">>) =>
         /\ id \notin RowIds(localOrders')
         /\ readyToasts[id] = 1
         /\ readyToasts'[id] = 1
    ]_vars

C8_Witness ==
  \E id \in RtIds :
    /\ hist[id] = <<"INSERT", "UPDATE_ready", "DELETE">>
    /\ readyToasts[id] = 1
    /\ id \notin RowIds(localOrders)

\* C9: a submission made while the client is offline issues no orders insert;
\* once it has returned, the order is in the offline buffer and the user has
\* been told that it was saved offline.
C9_OfflineSubmissionQueued ==
  sub.offline =>
    /\ ~sub.insertIssued
    /\ sub.outcome # "running" =>
         /\ localStorage # <<>>
         /\ toast = "Order saved offline"

\* C10: no order of the offline buffer gets more than one insert call, and the
\* insert calls are issued in the order in which the orders arrived, also
\* when the online event fires again while a sync is running.
C10_OneInsertPerOrder ==
  \A i, j \in 1..Len(insertLog) :
    i < j => insertLog[i].order < insertLog[j].order

\* C11: any two order numbers generated for the same restaurant at different
\* timestamps differ, so that no orders insert is refused by
\* UNIQUE(restaurant_id, order_number) because of the generator.
C11_OrderNumbersUnique ==
  \A i, j \in 1..Len(issued) :
    (/\ i < j
     /\ issued[i].restaurant_id = issued[j].restaurant_id
     /\ issued[i].at # issued[j].at) =>
      issued[i].order_number # issued[j].order_number

\* C12: the tax_amount and service_charge of every persisted order are its
\* subtotal times the tax_rate and the service_charge configured for its
\* restaurant.
C12_ConfiguredRates ==
  \A i \in 1..Len(orders) :
    LET cfg == RestaurantConfig[orders[i].restaurant_id] IN
    /\ orders[i].tax_amount = Decimal2((orders[i].subtotal * cfg.tax_rate) \div 100)
    /\ orders[i].service_charge =
         Decimal2((orders[i].subtotal * cfg.service_charge) \div 100)

\* C13: no response of the edge function carries the processor's secret key;
\* the public key id is in the response exactly when the call succeeded with
\* method razorpay, and it is null for every other call, cash included.
C13_SecretNeverReturned ==
  lastCall.n > 0 =>
    /\ lastCall.response.error # RazorpayKeySecret
    /\ lastCall.response.razorpay_key_id # RazorpayKeySecret
    /\ lastCall.response.status # RazorpayKeySecret
    /\ IF lastCall.response.success /\ lastCall.method = "razorpay"
       THEN lastCall.response.razorpay_key_id = RazorpayKeyId
       ELSE lastCall.response.razorpay_key_id = NULL

\* a razorpay call succeeded: the processor was sent the secret, the caller
\* got the key id
C13_Witness ==
  /\ lastCall.n > 0
  /\ lastCall.response.success
  /\ lastCall.method = "razorpay"
  /\ lastCall.response.razorpay_key_id = RazorpayKeyId
  /\ \E i \in 1..Len(gatewayOrders) :
       gatewayOrders[i].authorization[2] = RazorpayKeySecret

\* C14: every line of the cart has quantity >= 1 (a line whose quantity is set
\* to 0 or less is removed), and every persisted OrderItem has quantity >= 1.
C14_QuantityAtLeastOne ==
  /\ \A i \in 1..Len(cart) : cart[i].quantity >= 1
  /\ \A r \in orderItems : r.quantity >= 1

\* a line was taken out of a cart of two lines
C14_Witness ==
  /\ toast = "m1 removed from order"
  /\ Len(cart) = 1
  /\ cart[1].id = "m2"
  /\ cart[1].quantity = 1

\* C15: a call whose method is none of cash, card and razorpay fails, writes
\* no Payment row, creates no gateway order and leaves every Order unchanged.
C15_InvalidMethodRejected ==
  [][(lastCall'.n # lastCall.n /\ lastCall'.method \notin Methods) =>
       /\ ~lastCall'.response.success
       /\ StoresUntouched
    ]_vars

\* C16: with the Low Stock filter (and no search text or category chosen) the
\* list shows exactly the items with current_stock <= minimum_stock, in the
\* order of the inventory: items at their minimum and items out of stock are
\* shown; with any search text and category no item with
\* current_stock > minimum_stock is shown.
C16_LowStockFilter ==
  filterStatus = "Low Stock" =>
    /\ \A i \in 1..Len(filteredInventory) :
         /\ filteredInventory[i].current_stock <= filteredInventory[i].minimum_stock
         /\ \E j \in 1..Len(inventory) : inventory[j] = filteredInventory[i]
    /\ \A i, j \in 1..Len(filteredInventory) :
         i < j => filteredInventory[i].id < filteredInventory[j].id
    /\ (searchQuery = <<>> /\ selectedCategory = All) =>
         \A j \in 1..Len(inventory) :
           inventory[j].current_stock <= inventory[j].minimum_stock =>
             \E i \in 1..Len(filteredInventory) : filteredInventory[i] = inventory[j]

\* one item below its minimum, one at its minimum, one above: two are shown
C16_Witness ==
  /\ filterStatus = "Low Stock"
  /\ searchQuery = <<>>
  /\ selectedCategory = All
  /\ Len(inventory) = 3
  /\ inventory[1].current_stock = 0 /\ inventory[1].minimum_stock = 2
  /\ inventory[2].current_stock = 1 /\ inventory[2].minimum_stock = 1
  /\ inventory[3].current_stock = 2 /\ inventory[3].minimum_stock = 1
  /\ Len(filteredInventory) = 2
  /\ filteredInventory[1].id = 1
  /\ filteredInventory[2].id = 2

\* the Order row and all OrderItems of submission s are persisted
Persisted(s, os, items) ==
  /\ s.orderId \in 1..Len(os)
  /\ os[s.orderId].order_number = s.orderNumber
  /\ OrderItemRows(s.cart, s.orderId) \subseteq items

\* C17: within one submission the OrderItems are inserted only after the
\* Order insert succeeded, the table update starts and writes only after the
\* items insert succeeded, and the edge function is called only when the Order
\* row and all its OrderItems are persisted, for that order, and never for a
\* submission whose Order or OrderItems insert failed.
C17_StepsSequential ==
  [][/\ orderItems' # orderItems =>
          /\ sub.orderId \in 1..Len(orders)
          /\ "order" \notin sub.failed
     /\ pc' = "updateTable" => Persisted(sub', orders', orderItems')
     /\ tables' # tables => Persisted(sub, orders, orderItems)
     /\ lastCall'.n # lastCall.n =>
          /\ Persisted(sub, orders, orderItems)
          /\ lastCall'.order_id = sub.orderId
          /\ sub.failed \cap {"order", "items"} = {}
    ]_vars

\* a submission with a table has gone through all four steps
C17_Witness ==
  /\ pc = "awaitResponse"
  /\ lastCall.n > 0
  /\ lastCall.order_id = sub.orderId
  /\ sub.table # NULL
  /\ tables[sub.table] = "occupied"
  /\ Persisted(sub, orders, orderItems)

\* C18: a submission that returned after its Order row was inserted and after
\* one of its later steps failed (items insert, table update, payment
\* initiation or its transport) has shown an error, and its Order row is
\* still there with status pending.
C18_FailureKeepsOrderPending ==
  (sub.outcome \in {"success", "error"} /\ sub.orderId # 0 /\ sub.failed # {}) =>
    /\ sub.outcome = "error"
    /\ sub.orderId \in 1..Len(orders)
    /\ orders[sub.orderId].status = "pending"

\* the processor rejected the order request of call c
GatewayRejected(c) == c.gateway \notin {"not called", "created"}

\* C19: a call in which the processor rejects the order request or the
\* payments insert fails is answered with HTTP 400 and success false, writes
\* no Payment row and leaves every Order as it was (no Order becomes served,
\* also for cash); for a rejection the error carries the processor's
\* description.
C19_GatewayOrInsertFailure ==
  [][(lastCall'.n # lastCall.n
      /\ (GatewayRejected(lastCall') \/ lastCall'.insert = "error")) =>
       /\ ~lastCall'.response.success
       /\ lastCall'.response.httpStatus = 400
       /\ payments' = payments
       /\ orders' = orders
       /\ (GatewayRejected(lastCall') /\ lastCall'.gateway # NoDescription) =>
            lastCall'.response.error = "Razorpay error: " \o lastCall'.gateway
    ]_vars

\* the processor rejected a razorpay call and its description reached the caller
C19_Witness ==
  /\ lastCall.n > 0
  /\ lastCall.method = "razorpay"
  /\ lastCall.gateway = "Amount exceeds maximum amount allowed"
  /\ lastCall.response.error = "Razorpay error: Amount exceeds maximum amount allowed"
  /\ lastCall.response.httpStatus = 400
  /\ payments = <<>>

\* C20: a call whose credential does not resolve to a user (no Authorization
\* header, or a token that getUser refuses) fails with Unauthorized, and a
\* call of a signed-in user with a valid amount for an order id that no order
\* has fails with Order not found; neither creates a gateway order or writes
\* anything.
C20_UnauthorizedAndNotFound ==
  [][lastCall'.n # lastCall.n =>
       /\ GetUser(lastCall'.token) = NULL =>
            /\ lastCall'.response.error = "Unauthorized"
            /\ StoresUntouched
       /\ (/\ GetUser(lastCall'.token) # NULL
           /\ lastCall'.amount > 0
           /\ lastCall'.order_id > Len(orders)) =>
            /\ lastCall'.response.error = "Order not found"
            /\ StoresUntouched
    ]_vars

\* C21: a successful call with an accepted method other than cash (card or
\* razorpay) has created an order at the processor, and the Payment row it
\* wrote is pending, has no processed_at and refers to that gateway order.
C21_NonCashCreatesGatewayOrder ==
  [][(/\ lastCall'.n # lastCall.n
      /\ lastCall'.response.success
      /\ lastCall'.method \in Methods \ {"cash"}) =>
       /\ Len(gatewayOrders') = Len(gatewayOrders) + 1
       /\ Len(payments') = Len(payments) + 1
       /\ payments'[Len(payments')].payment_status = "pending"
       /\ payments'[Len(payments')].processed_at = NULL
       /\ payments'[Len(payments')].razorpay_order_id # NullId
    ]_vars

\* C22: when the hook applies an UPDATE event it shows a ready notification
\* if and only if the event changed the order's status to ready from another
\* status; an UPDATE of an order that was ready already shows none.
C22_ReadyOnlyOnTransition ==
  [][(hist' # hist /\ Head(feed).type = "UPDATE") =>
       LET ev == Head(feed) IN
       IF ev.row.status = "ready" /\ ev.old # "ready"
       THEN readyToasts'[ev.row.id] = readyToasts[ev.row.id] + 1
       ELSE readyToasts' = readyToasts
    ]_vars

\* the orders of the tenant that exist on the server
ServerIds == {id \in RtIds : serverOrders[id] \in RtStatuses}

\* C26: once the result of the initial fetch and every delivered event have
\* been applied, the local list holds every order of the tenant that exists
\* on the server, no other order, and no order id twice.
C26_FetchAndEventsConverge ==
  (fetchState.at = "done" /\ feed = <<>>) =>
    /\ RowIds(localOrders) = ServerIds
    /\ \A i, j \in 1..Len(localOrders) :
         localOrders[i].id = localOrders[j].id => i = j

\* C23: when a dropped channel is joined again the hook fetches the full set
\* of the tenant's orders anew (to replace its local list with it).
C23_ReconnectRefetches ==
  [][(\E c \in channels :
        c.state = "down" /\ Channel(c.topic, "joined") \in channels') =>
       fetchState'.at = "requested"
    ]_vars

C29_RowsOfCurrentTenant ==
  mounted => \A i \in 1..Len(localOrders) : localOrders[i].restaurant_id = restaurantId

\* a step of processPayment: a click, or one of its awaits returning
SubmissionStep == pc' # pc \/ sub' # sub \/ nClicks' # nClicks
\* the step in which a submission ends with the success branch
ReportsSuccess == pc = "awaitResponse" /\ pc' = "idle" /\ sub'.outcome = "success"

\* C25: a step of a submission clears the cart, the customer info and the
\* selected table when it is the step that reads a payment response with
\* success true, and only then; every other step of a submission, the failing
\* ones included, leaves the three as they were.
C25_ClearedOnlyOnSuccess ==
  [][SubmissionStep =>
       /\ ReportsSuccess =>
            /\ sub.resp.success
            /\ cart' = <<>> /\ customerInfo' = EmptyCustomer /\ selectedTable' = NULL
       /\ ~ReportsSuccess => UNCHANGED <<cart, customerInfo, selectedTable>>
       /\ (pc = "awaitResponse" /\ sub.resp.success /\ "transport" \notin sub'.failed) =>
            ReportsSuccess
    ]_vars

\* a submission with a line, a table and a customer ended in success
C25_Witness ==
  /\ sub.outcome = "success"
  /\ sub.cart # <<>> /\ sub.table # NULL /\ sub.customer # EmptyCustomer
  /\ cart = <<>> /\ customerInfo = EmptyCustomer /\ selectedTable = NULL

\* C27: a submission starts only while none is running, so each started
\* submission makes at most one orders insert and one payment request;
\* isProcessingPayment is true exactly while a submission runs.
C27_OneSubmissionInFlight ==
  [][/\ (nClicks' # nClicks /\ lastClick' = "started") =>
          pc = "idle" /\ ~isProcessingPayment /\ Len(issued') = Len(issued) + 1
     /\ isProcessingPayment' <=> pc' # "idle"
     /\ Len(orders') <= Len(issued')
     /\ lastCall'.n <= Len(issued')
     /\ Len(orders') > Len(orders) => Len(orders) < Len(issued)
     /\ lastCall'.n > lastCall.n => lastCall.n < Len(issued)
    ]_vars

\* a second submission was started after the first had ended, and each made
\* its orders insert and its payment request
C27_Witness ==
  /\ nClicks = 2 /\ Len(issued) = 2
  /\ Len(orders) = 2 /\ lastCall.n = 2
  /\ pc = "idle" /\ ~isProcessingPayment

\* C28: an order leaves the stored offline buffer only when an insert call
\* has been made for it.
C28_NoOrderDroppedUnsent ==
  [][\A i \in 1..Len(localStorage) :
       (\A j \in 1..Len(localStorage') : localStorage'[j] # localStorage[i]) =>
         \E k \in 1..Len(insertLog') : insertLog'[k].order = localStorage[i]
    ]_vars

\* C30: every stored Payment row has the total_amount and the restaurant_id
\* of the order it references.
C30_PaymentMatchesOrder ==
  \A i \in 1..Len(payments) :
    /\ payments[i].order_id \in 1..Len(orders)
    /\ payments[i].amount = orders[payments[i].order_id].total_amount
    /\ payments[i].restaurant_id = orders[payments[i].order_id].restaurant_id

====
